---------------------------- MODULE Spec2Model ----------------------------
(***************************************************************************)
(* State-machine model of backend/main.py (Movie-Flix): the module-level   *)
(* cache (movies_df, tfidf_matrix, cosine_sim), the index build            *)
(* prepare_content_based_filtering and the three request handlers.         *)
(*                                                                         *)
(* Calls.  The module's functions are taken in any order: the handlers are *)
(* callable on the ASGI app whether or not startup_event has run, and      *)
(* prepare_content_based_filtering is a module-level function that may be  *)
(* called again.  Each call is one step; no call suspends.                 *)
(*                                                                         *)
(* Numbers.  TF-IDF weights are kept as integers: term count times the     *)
(* smoothed idf ln((1+n)/(1+df))+1 scaled by 10 and rounded (IdfTable).    *)
(* A similarity score is kept as the exact reduced fraction                *)
(* dot(u,v)^2 / (|u|^2 |v|^2), the square of the cosine; weights are       *)
(* non-negative, so squaring keeps the order of scores, 1 stays 1 and 0    *)
(* stays 0.  An all-zero vector has score 0 against every vector, itself   *)
(* included, as sklearn's normalize leaves zero rows at zero.              *)
(***************************************************************************)
EXTENDS Integers, Sequences, FiniteSets, TLC

VARIABLES movies_df, tfidf_matrix, cosine_sim, request, response,
          movie_indices

vars == <<movies_df, tfidf_matrix, cosine_sim, request, response,
          movie_indices>>

cache == <<movies_df, tfidf_matrix, cosine_sim>>

-----------------------------------------------------------------------------
(* Bounds of the model.                                                    *)

\* Largest number of records the catalog returns in one "popular" page.
MaxCorpus == 7

\* Largest page in which the catalog sends a null field.
MaxNullLen == 1

-----------------------------------------------------------------------------
(* Python / pandas values.                                                 *)

None == [type |-> "NoneType"]

IsNone(x) == x.type = "NoneType"

\* A text cell: a string as its sequence of lower-cased words, or NaN
\* (what pandas holds for a JSON null).
Str(ws) == [type |-> "str", words |-> ws]

NaN == [type |-> "NaN", words |-> <<>>]

IsNaN(t) == t.type = "NaN"

\* str + str; pandas propagates NaN through + on an object column.
StrAdd(a, b) ==
    IF IsNaN(a) \/ IsNaN(b) THEN NaN ELSE Str(a.words \o b.words)

\* The separator ' ' of line 65: it adds no word.
Space == Str(<<>>)

Min(a, b) == IF a <= b THEN a ELSE b

RECURSIVE GCD(_, _)
GCD(a, b) == IF b = 0 THEN a ELSE GCD(b, a % b)

-----------------------------------------------------------------------------
(* The catalog: what fetch_popular_movies may return.                      *)

Movie(i, ov, ti) ==
    [id |-> i, title |-> ti, overview |-> ov, poster_path |-> i,
     popularity |-> 1]

\* Records the upstream API serves, in its order.  Records 1 and 2 have
\* identical text; record 4 has an empty title and an overview of a stop
\* word and a one-letter word, so no term of the vocabulary.
Catalog ==
    << Movie(1, Str(<<"a", "hero", "saves", "the", "world">>), Str(<<"alpha">>)),
       Movie(2, Str(<<"a", "hero", "saves", "the", "world">>), Str(<<"alpha">>)),
       Movie(3, Str(<<"a", "chef", "saves", "bread">>), Str(<<"gamma">>)),
       Movie(4, Str(<<"the", "x">>), Str(<<>>)) >>

CatalogLen == Len(Catalog)

\* JSON nulls the catalog may send: none, or the overview or the title of
\* the last record of the page.
Defects == {"none", "overview", "title"}

\* A page of n records starting at catalog position s (the catalog is read
\* cyclically, so a long page repeats records and ids) with defect d.
Page(s, n, d) ==
    [k \in 1..n |->
        LET r == Catalog[((s + k - 2) % CatalogLen) + 1]
        IN  IF k = n /\ d = "overview" THEN [r EXCEPT !.overview = NaN]
            ELSE IF k = n /\ d = "title" THEN [r EXCEPT !.title = NaN]
            ELSE r]

Pages ==
    {<<>>}
        \cup {Page(s, n, "none") : s \in 1..CatalogLen, n \in 1..MaxCorpus}
        \cup {Page(s, n, d) : s \in 1..CatalogLen, n \in 1..MaxNullLen,
                              d \in Defects}

\* Ids a client may ask for: the catalog's ids and one id it never serves.
MovieIds == 1..(CatalogLen + 1)

-----------------------------------------------------------------------------
(* TfidfVectorizer(stop_words='english').fit_transform                     *)

\* The members of sklearn's English stop-word list among the words used.
StopWords == {"a", "the"}

\* Words the default token_pattern (two or more word characters) drops.
OneLetterWords == {"a", "x"}

\* Tokens of a document: its words of two or more letters that are not
\* stop words.
Tokens(t) ==
    SelectSeq(t.words, LAMBDA w : w \notin OneLetterWords /\ w \notin StopWords)

RECURSIVE Count(_, _)
Count(ws, w) ==
    IF ws = <<>> THEN 0
    ELSE (IF Head(ws) = w THEN 1 ELSE 0) + Count(Tail(ws), w)

Range(s) == {s[k] : k \in DOMAIN s}

\* <<Op(1), ..., Op(n)>>
RECURSIVE Tabulate(_, _)
Tabulate(Op(_), n) ==
    IF n = 0 THEN <<>> ELSE Append(Tabulate(Op, n - 1), Op(n))

\* The vocabulary_ of the fitted vectorizer, as the list of its terms (the
\* order of the columns does not enter any score).
RECURSIVE Terms(_)
Terms(S) ==
    IF S = {} THEN <<>>
    ELSE LET w == CHOOSE x \in S : TRUE IN <<w>> \o Terms(S \ {w})

Vocabulary(docs) == Terms(UNION {Range(Tokens(docs[k])) : k \in DOMAIN docs})

\* round(10 * (ln((1 + n) / (1 + df)) + 1)) for n = 1..9, df = 1..n.
IdfTable ==
    << <<10>>,
       <<14, 10>>,
       <<17, 13, 10>>,
       <<19, 15, 12, 10>>,
       <<21, 17, 14, 12, 10>>,
       <<23, 18, 16, 13, 12, 10>>,
       <<24, 20, 17, 15, 13, 11, 10>>,
       <<25, 21, 18, 16, 14, 13, 11, 10>>,
       <<26, 22, 19, 17, 15, 14, 12, 11, 10>> >>

DocFreq(toks, w) == Cardinality({k \in DOMAIN toks : Count(toks[k], w) > 0})

Idf(toks, w) == IdfTable[Len(toks)][DocFreq(toks, w)]

\* fit_transform raises ValueError on a NaN document and on an empty
\* vocabulary.
TfidfRaises(docs) ==
    \/ \E k \in DOMAIN docs : IsNaN(docs[k])
    \/ Vocabulary(docs) = <<>>

\* Otherwise it returns one row of weights per document, one column per
\* term: term count times idf.
TfidfFitTransform(docs) ==
    LET toks == Tabulate(LAMBDA k : Tokens(docs[k]), Len(docs))
        voc  == Vocabulary(docs)
        idf  == Tabulate(LAMBDA t : Idf(toks, voc[t]), Len(voc))
    IN  Tabulate(LAMBDA k :
                    Tabulate(LAMBDA t : Count(toks[k], voc[t]) * idf[t], Len(voc)),
                 Len(docs))

-----------------------------------------------------------------------------
(* sklearn.metrics.pairwise.cosine_similarity                              *)

RECURSIVE Dot(_, _)
Dot(u, v) ==
    IF u = <<>> THEN 0 ELSE Head(u) * Head(v) + Dot(Tail(u), Tail(v))

Frac(n, d) == LET g == GCD(n, d) IN [num |-> n \div g, den |-> d \div g]

Zero == [num |-> 0, den |-> 1]

One == [num |-> 1, den |-> 1]

\* Cosine with the product divided by the first row's norm alone.
CosineOneNorm(u, v) ==
    LET nu == Dot(u, u)
        nv == Dot(v, v)
        d  == Dot(u, v)
    IN  IF nu = 0 \/ nv = 0 THEN Zero ELSE Frac(d * d, nu * nu)

\* The score of two rows: 0 when either is all zero (normalize leaves a
\* zero row at zero), else the squared cosine.
Cosine(u, v) ==
    LET nu == Dot(u, u)
        nv == Dot(v, v)
        d  == Dot(u, v)
    IN  IF nu = 0 \/ nv = 0 THEN Zero ELSE Frac(d * d, nu * nv)

CosineSimilarity(X) ==
    Tabulate(LAMBDA i : Tabulate(LAMBDA j : Cosine(X[i], X[j]), Len(X)), Len(X))

\* a < b on reduced non-negative fractions, by continued-fraction steps
\* (no product of two large numbers is formed).
RECURSIVE FracLess(_, _, _, _)
FracLess(a, b, c, d) ==
    LET q1 == a \div b
        q2 == c \div d
        r1 == a % b
        r2 == c % d
    IN  IF q1 # q2 THEN q1 < q2
        ELSE IF r2 = 0 THEN FALSE
        ELSE IF r1 = 0 THEN TRUE
        ELSE FracLess(d, r2, b, r1)

Less(x, y) == FracLess(x.num, x.den, y.num, y.den)

-----------------------------------------------------------------------------
(* The cache and the values the handlers return.                           *)

DataFrame(rows) ==
    [type |-> "DataFrame", rows |-> rows, has_features |-> FALSE,
     combined_features |-> <<>>]

Matrix(kind, data) == [type |-> kind, data |-> data]

\* raise HTTPException(status_code=500, detail=str(e)); the detail is kept
\* as the class of e.
HTTPException(e) == [type |-> "HTTPException", status_code |-> 500, detail |-> e]

Ids(df) == {df.rows[k].id : k \in DOMAIN df.rows}

\* movies_df[movies_df['id'] == movie_id].index: the matching row labels.
Matching(df, movie_id) == {k \in DOMAIN df.rows : df.rows[k].id = movie_id}

FirstIndex(S) == CHOOSE k \in S : \A m \in S : k <= m

-----------------------------------------------------------------------------
(* prepare_content_based_filtering                                         *)

CombinedFeatures(rows) ==
    [k \in DOMAIN rows |->
        StrAdd(StrAdd(rows[k].overview, Space), rows[k].title)]

\* fit_transform and cosine_similarity on the documents of a page.
Fitted(docs) ==
    LET X == TfidfFitTransform(docs)
    IN  [tf |-> X, cs |-> CosineSimilarity(X)]

\* Fitted, tabulated once for the documents of every page the vectorizer
\* accepts.
FittedTable ==
    {<<CombinedFeatures(p), Fitted(CombinedFeatures(p))>> :
        p \in {q \in Pages : ~TfidfRaises(CombinedFeatures(q))}}

Fit(docs) == (CHOOSE e \in FittedTable : e[1] = docs)[2]

\* The cache and the exception (or "none") the build ends with, given the
\* cache it starts from and what fetch_popular_movies did: "raise", or the
\* page it returned.  Each global is assigned where the code assigns it, so
\* an exception keeps the assignments made before it.
Prepare(df, tf, cs, fetched) ==
    IF fetched.raised
    THEN [df |-> df, tf |-> tf, cs |-> cs, exc |-> "ConnectionError"]
    ELSE LET df1  == DataFrame(fetched.page)
             docs == CombinedFeatures(fetched.page)
             df2  == [df1 EXCEPT !.has_features = TRUE,
                                 !.combined_features = docs]
         IN  IF fetched.page = <<>>
             THEN [df |-> df1, tf |-> tf, cs |-> cs, exc |-> "KeyError"]
             ELSE IF TfidfRaises(docs)
             THEN [df |-> df2, tf |-> tf, cs |-> cs, exc |-> "ValueError"]
             ELSE [df |-> df2, tf |-> Matrix("csr_matrix", Fit(docs).tf),
                   cs |-> Matrix("ndarray", Fit(docs).cs),
                   exc |-> "none"]

FetchOutcomes ==
    {[raised |-> TRUE, page |-> <<>>]}
        \cup {[raised |-> FALSE, page |-> p] : p \in Pages}

prepare_content_based_filtering ==
    \E fetched \in FetchOutcomes :
        LET out == Prepare(movies_df, tfidf_matrix, cosine_sim, fetched)
        IN  /\ movies_df' = out.df
            /\ tfidf_matrix' = out.tf
            /\ cosine_sim' = out.cs
            /\ request' = [op |-> "prepare_content_based_filtering",
                           movie_id |-> 0, fetched |-> ~fetched.raised]
            /\ response' = [type |-> "build", exc |-> out.exc]
            /\ movie_indices' = <<>>

-----------------------------------------------------------------------------
(* get_movie_recommendations                                               *)

\* A descending sort that is not stable: among equal scores the later pair
\* comes first (an ascending sort, reversed).
RECURSIVE SortedAscReversed(_, _)
SortedAscReversed(row, S) ==
    IF S = {} THEN <<>>
    ELSE LET best == CHOOSE k \in S :
                        \A m \in S : /\ ~Less(row[k], row[m])
                                      /\ (row[m] = row[k] => k >= m)
         IN  <<best>> \o SortedAscReversed(row, S \ {best})

\* sorted(pairs, key=score, reverse=True): a stable sort, so among equal
\* scores the earlier pair stays first.  Positions of row, best first.
RECURSIVE SortedDesc(_, _)
SortedDesc(row, S) ==
    IF S = {} THEN <<>>
    ELSE LET best == CHOOSE k \in S :
                        \A m \in S : /\ ~Less(row[k], row[m])
                                      /\ (row[m] = row[k] => k <= m)
         IN  <<best>> \o SortedDesc(row, S \ {best})

\* sim_scores[0:5]: the slice without the step over rank 0.
TopSliceFromZero(s) == SubSeq(s, 1, Min(5, Len(s)))

\* sim_scores[1:6]
TopSlice(s) == SubSeq(s, 2, Min(6, Len(s)))

Project(r) ==
    [id |-> r.id, title |-> r.title, overview |-> r.overview,
     poster_path |-> r.poster_path]

\* The handler's result (what it returns or raises, before FastAPI
\* serialises it) and its local movie_indices (empty when the line that
\* assigns it is not reached).
Recommend(df, cs, movie_id) ==
    IF IsNone(df)
    THEN [response |-> HTTPException("TypeError"), indices |-> <<>>]
    ELSE IF df.rows = <<>>
    THEN [response |-> HTTPException("KeyError"), indices |-> <<>>]
    ELSE IF Matching(df, movie_id) = {}
    THEN [response |-> HTTPException("IndexError"), indices |-> <<>>]
    ELSE IF IsNone(cs)
    THEN [response |-> HTTPException("TypeError"), indices |-> <<>>]
    ELSE LET idx == FirstIndex(Matching(df, movie_id))
         IN  IF idx \notin DOMAIN cs.data
             THEN [response |-> HTTPException("IndexError"), indices |-> <<>>]
             ELSE LET row == cs.data[idx]
                      ind == TopSlice(SortedDesc(row, DOMAIN row))
                  IN  IF \E k \in DOMAIN ind : ind[k] \notin DOMAIN df.rows
                      THEN [response |-> HTTPException("IndexError"),
                            indices |-> ind]
                      ELSE [response |->
                                [type |-> "dict",
                                 recommendations |->
                                    [k \in DOMAIN ind |-> Project(df.rows[ind[k]])]],
                            indices |-> ind]

get_movie_recommendations ==
    \E movie_id \in MovieIds :
        LET out == Recommend(movies_df, cosine_sim, movie_id)
        IN  /\ request' = [op |-> "get_movie_recommendations",
                           movie_id |-> movie_id, fetched |-> FALSE]
            /\ response' = out.response
            /\ movie_indices' = out.indices
            /\ UNCHANGED <<movies_df, tfidf_matrix, cosine_sim>>

-----------------------------------------------------------------------------
(* get_movies and get_popular_movies                                       *)

\* What the list handlers are seen to fetch: a failure, or one of a few
\* pages.
ListOutcomes ==
    {[raised |-> TRUE, page |-> <<>>]}
        \cup {[raised |-> FALSE, page |-> Page(s, n, "none")] :
                    s \in {1}, n \in 0..1}

get_movies ==
    \E fetched \in ListOutcomes :
        /\ request' = [op |-> "get_movies", movie_id |-> 0,
                       fetched |-> ~fetched.raised]
        /\ response' =
              IF fetched.raised THEN HTTPException("ConnectionError")
              ELSE [type |-> "dict", movies |-> fetched.page,
                    total_pages |-> 1, current_page |-> 1,
                    total_results |-> Len(fetched.page)]
        /\ movie_indices' = <<>>
        /\ UNCHANGED <<movies_df, tfidf_matrix, cosine_sim>>

\* get_popular_movies keeping what it fetched in movies_df.
get_popular_movies_caching ==
    \E fetched \in ListOutcomes :
        /\ request' = [op |-> "get_popular_movies", movie_id |-> 0,
                       fetched |-> ~fetched.raised]
        /\ response' =
              IF fetched.raised THEN HTTPException("ConnectionError")
              ELSE [type |-> "dict", movies |-> fetched.page]
        /\ movies_df' =
              IF fetched.raised THEN movies_df ELSE DataFrame(fetched.page)
        /\ movie_indices' = <<>>
        /\ UNCHANGED <<tfidf_matrix, cosine_sim>>

get_popular_movies ==
    \E fetched \in ListOutcomes :
        /\ request' = [op |-> "get_popular_movies", movie_id |-> 0,
                       fetched |-> ~fetched.raised]
        /\ response' =
              IF fetched.raised THEN HTTPException("ConnectionError")
              ELSE [type |-> "dict", movies |-> fetched.page]
        /\ movie_indices' = <<>>
        /\ UNCHANGED <<movies_df, tfidf_matrix, cosine_sim>>

-----------------------------------------------------------------------------
(* The program.                                                            *)

Init ==
    /\ movies_df = None
    /\ tfidf_matrix = None
    /\ cosine_sim = None
    /\ request = [op |-> "import", movie_id |-> 0, fetched |-> FALSE]
    /\ response = [type |-> "NoneType"]
    /\ movie_indices = <<>>

Next ==
    \/ prepare_content_based_filtering
    \/ get_movies
    \/ get_popular_movies
    \/ get_movie_recommendations

Spec == Init /\ [][Next]_vars

-----------------------------------------------------------------------------
(* Notions the properties use.                                             *)

\* The cached matrix is the similarity of the cached corpus: the pair a
\* build that ran to its end leaves.
IndexBuilt ==
    /\ ~IsNone(movies_df)
    /\ ~IsNone(cosine_sim)
    /\ movies_df.has_features
    /\ ~TfidfRaises(movies_df.combined_features)
    /\ cosine_sim.data = Fit(movies_df.combined_features).cs

Unbuilt == IsNone(movies_df) \/ IsNone(cosine_sim)

Recommended == request.op = "get_movie_recommendations"

Returned == Recommended /\ response.type = "dict"

Failed == response.type = "HTTPException"

\* What tells one failure from another at the boundary: the status code
\* (the detail is the text of whatever exception was caught).
ErrorClass(r) == r.status_code

\* The handlers' answers to an upstream failure, to a request on the
\* empty cache, and to an unknown id on a built index.
UpstreamAnswer == HTTPException("ConnectionError")

UnbuiltAnswer == Recommend(None, None, 1).response

UnknownIdAnswer ==
    LET docs == CombinedFeatures(Page(1, 1, "none"))
    IN  Recommend([DataFrame(Page(1, 1, "none")) EXCEPT
                        !.has_features = TRUE, !.combined_features = docs],
                  Matrix("ndarray", Fit(docs).cs), CatalogLen + 1).response

MissingOrEmpty(t) == IsNaN(t) \/ t.words = <<>>

Symmetric(M) == \A i, j \in DOMAIN M : M[i][j] = M[j][i]

\* The row of the requested movie and its cached scores.
TargetRow == FirstIndex(Matching(movies_df, request.movie_id))

Scores == cosine_sim.data[TargetRow]

-----------------------------------------------------------------------------
(* C1.  Recommending id X on a built index never returns the target's own  *)
(* row: the self-match is the entry dropped.  (The claim's "no record      *)
(* whose id is X" implies this: the record of the target's row has id X.)  *)
C1_SelfExcluded ==
    (IndexBuilt /\ Returned) =>
        \A k \in DOMAIN movie_indices : movie_indices[k] # TargetRow

(* C2.  On a built index of n records a request for an id of the corpus    *)
(* succeeds and returns exactly min(5, n - 1) recommendations.             *)
C2_Length ==
    (IndexBuilt /\ Recommended /\ request.movie_id \in Ids(movies_df)) =>
        /\ response.type = "dict"
        /\ Len(response.recommendations) = Min(5, Len(movies_df.rows) - 1)

C2_Witness ==
    /\ IndexBuilt
    /\ Returned
    /\ Len(movies_df.rows) >= 7
    /\ Len(response.recommendations) = 5

(* C3.  On a built index a request for an id of no record fails with the   *)
(* NotFound outcome, distinct from the outcomes of a request on an unbuilt *)
(* index and of an upstream failure, and returns no list.                  *)
C3_NotFound ==
    (IndexBuilt /\ Recommended /\ request.movie_id \notin Ids(movies_df)) =>
        /\ Failed
        /\ ErrorClass(response) # ErrorClass(UnbuiltAnswer)
        /\ ErrorClass(response) # ErrorClass(UpstreamAnswer)

(* C4.  A recommendation request handled while the index is not built      *)
(* (movies_df or cosine_sim still None) is rejected with the               *)
(* FailedPrecondition outcome, distinct from the outcomes of an unknown id *)
(* and of an upstream failure, and returns no list.                        *)
C4_FailedPrecondition ==
    (Unbuilt /\ Recommended) =>
        /\ Failed
        /\ ErrorClass(response) # ErrorClass(UnknownIdAnswer)
        /\ ErrorClass(response) # ErrorClass(UpstreamAnswer)

(* C5.  The cached corpus and matrix always come from the same build: the  *)
(* cache is entirely unbuilt or the pair of one build that ran to its end. *)
C5_SameBuild ==
    \/ IsNone(movies_df) /\ IsNone(tfidf_matrix) /\ IsNone(cosine_sim)
    \/ IndexBuilt

(* C6.  The recommendations are in descending order of the cached score to *)
(* the target, and of two with equal score the one with the lower corpus   *)
(* index comes first; each is the record of its row.                       *)
C6_Ordered ==
    Returned =>
        /\ \A k, l \in DOMAIN movie_indices :
              k < l =>
                /\ ~Less(Scores[movie_indices[k]], Scores[movie_indices[l]])
                /\ (Scores[movie_indices[k]] = Scores[movie_indices[l]]
                        => movie_indices[k] < movie_indices[l])
        /\ response.recommendations =
              [k \in DOMAIN movie_indices |->
                    Project(movies_df.rows[movie_indices[k]])]

C6_Witness ==
    /\ IndexBuilt
    /\ Returned
    /\ \E k, l \in DOMAIN movie_indices :
          /\ k < l
          /\ Scores[movie_indices[k]] = Scores[movie_indices[l]]
          /\ Scores[movie_indices[k]] # Zero
    /\ \E k, l \in DOMAIN movie_indices :
          Less(Scores[movie_indices[l]], Scores[movie_indices[k]])

(* C7.  A build over a page in which some record has a missing or empty    *)
(* overview or title runs to its end: no exception, and the index is built *)
(* with one row per record.                                                *)
C7_BuildTolerates ==
    (/\ request.op = "prepare_content_based_filtering"
     /\ request.fetched
     /\ \E k \in DOMAIN movies_df.rows :
            \/ MissingOrEmpty(movies_df.rows[k].overview)
            \/ MissingOrEmpty(movies_df.rows[k].title)) =>
        /\ response.exc = "none"
        /\ IndexBuilt
        /\ Len(cosine_sim.data) = Len(movies_df.rows)

(* C8.  When a successful build replaces a built corpus, a request for an  *)
(* id only the replaced corpus held is answered (Recommend on the cache    *)
(* the build leaves) with the NotFound outcome, as in C3, and no list.     *)
C8_RebuildReplaces ==
    [][(/\ IndexBuilt
        /\ request'.op = "prepare_content_based_filtering"
        /\ response'.exc = "none") =>
            \A id \in Ids(movies_df) \ Ids(movies_df') :
                LET answer == Recommend(movies_df', cosine_sim', id).response
                IN  /\ answer.type = "HTTPException"
                    /\ ErrorClass(answer) # ErrorClass(UnbuiltAnswer)
                    /\ ErrorClass(answer) # ErrorClass(UpstreamAnswer)]_vars

C10_HandlersKeepCache ==
    [][cache' # cache => request'.op = "prepare_content_based_filtering"]_vars

C10_Witness ==
    /\ IndexBuilt
    /\ request.op \in {"get_movies", "get_popular_movies",
                        "get_movie_recommendations"}
    /\ Failed

=============================================================================
